---- MODULE Spec2Model ----
(***************************************************************************)
(* Model of the parkeervakken import (src/src/dags/parkeervakken.py): the  *)
(* regime derivation for one shapefile record (parse_time, get_modes,      *)
(* days_from_row, create_regimes) and the import run over the shapefiles   *)
(* (run_imports, import_data); and of HttpGobOperator                      *)
(* (src/src/plugins/http_gob_operator.py): _fetch_headers and the request  *)
(* loop of execute.                                                        *)
(*                                                                         *)
(* Python values are modelled as follows.                                  *)
(*   - datetime.time(h, m) is the minute of the day h*60+m (0..1439).      *)
(*   - A text field is a string; None is the value None below; "" is the   *)
(*     empty string.  For a weekday flag "" stands for every value that is *)
(*     falsy but is not None (False, 0, "").                               *)
(*   - A raw time field (before parse_time) is a record [tag, va, hh, mm]: *)
(*     tag "None" is None, tag "empty" is "", tag "str" is the text        *)
(*     "hh:mm", with the prefix "va " when va is TRUE.                     *)
(*   - PARKEER_ID is the sequence of its decimal digits; the empty         *)
(*     sequence is a missing identifier.                                   *)
(*   - time.time() is a whole number of seconds; an access token is the   *)
(*     number of tokens fetched so far, NoToken when none is held.         *)
(***************************************************************************)
EXTENDS Integers, Sequences, FiniteSets, TLC

VARIABLES
    pc,                 \* position of the program that is running
    row,                \* the shapefile record at hand
    modes,              \* result of get_modes(row)
    days,               \* result of days_from_row(row)
    output,             \* result of create_regimes(row)
    ids,                \* run_imports: identifiers seen in this run
    duplicates,         \* import_data: identifiers rejected in this file
    parkeervakken_sql,  \* import_data: spot entries of this file
    regimes_sql,        \* import_data: regime entries of this file
    base_temp,          \* rows inserted into TABLES["BASE_TEMP"]
    regimes_temp,       \* rows inserted into TABLES["REGIMES_TEMP"]
    printed,            \* the duplicates lists run_imports has printed
    files,              \* number of shapefiles started
    nrows,              \* number of records read in this run
    read_ids,           \* PARKEER_ID of the records read in this run, in order
    cursor,             \* create_regimes: mode_start after the walk of the modes
    soort,              \* import_data: the kind passed to create_parkeervaak
    text,               \* parse_time: the value to parse
    bound,              \* parse_time: the default it is given
    parsed,             \* parse_time: its result
    max_records,        \* execute: the limit on the records, or NoLimit
    batch_size,         \* execute: records asked for in one request
    available,          \* records the endpoint holds
    cursor_pos,         \* execute: the cursor sent with the next request
    records_loaded,     \* execute: batch_size times the requests answered
    attempt,            \* execute: failed attempts of the request at hand
    response,           \* execute: what the last answered request returned
    fetched,            \* batches with records that were received
    loads,              \* calls of importer.load_file
    protected,          \* HttpGobOperator.protected
    access_token,       \* HttpGobOperator.access_token
    token_expires_time, \* HttpGobOperator.token_expires_time
    now,                \* time.time()
    headers             \* result of _fetch_headers

pvars == <<text, bound, parsed>>
tvars == <<protected, access_token, token_expires_time, now, headers>>
gvars == <<max_records, batch_size, available, cursor_pos, records_loaded, attempt,
           response, fetched, loads, tvars>>
fvars == <<modes, days, output, cursor, pvars>>
runvars == <<ids, duplicates, parkeervakken_sql, regimes_sql, base_temp,
             regimes_temp, printed, files, nrows, read_ids, soort>>
vars == <<pc, row, modes, days, output, ids, duplicates, parkeervakken_sql,
          regimes_sql, base_temp, regimes_temp, printed, files, nrows, read_ids,
          cursor, soort, text, bound, parsed,
         gvars>>

----------------------------------------------------------------------------
(* Python values *)

None == "None"

Truthy(v) == v # None /\ v # ""

\* Python's `v or d`
Or(v, d) == IF Truthy(v) THEN v ELSE d

\* dict.update: the keys of u override those of d
Update(d, u) ==
    [k \in (DOMAIN d) \cup (DOMAIN u) |-> IF k \in DOMAIN u THEN u[k] ELSE d[k]]

\* datetime.time(h, m)
Time(h, m) == h * 60 + m

MinutesPerDay == Time(23, 59) + 1

\* max_records is None; access_token is None
NoLimit == 0 - 1
NoToken == 0

\* the operator before execute is called
GobIdle ==
    /\ max_records = NoLimit
    /\ batch_size = 1
    /\ available = 0
    /\ cursor_pos = 0
    /\ records_loaded = 0
    /\ attempt = 0
    /\ response = ""
    /\ fetched = 0
    /\ loads = 0
    /\ protected = FALSE
    /\ access_token = NoToken
    /\ token_expires_time = 0
    /\ now = 0
    /\ headers = [Authorization |-> NoToken]

\* raw time texts
NoneT == [tag |-> "None", va |-> FALSE, hh |-> 0, mm |-> 0]
EmptyT == [tag |-> "empty", va |-> FALSE, hh |-> 0, mm |-> 0]
T(h, m) == [tag |-> "str", va |-> FALSE, hh |-> h, mm |-> m]
Va(h, m) == [tag |-> "str", va |-> TRUE, hh |-> h, mm |-> m]

\* truth value of a raw time text: None and "" are falsy
TruthyT(v) == v.tag = "str"

----------------------------------------------------------------------------
(* Constants of the program *)

WEEK_DAYS == <<"ma", "di", "wo", "do", "vr", "za", "zo">>

\* day.upper(), and getattr(row.record, day.upper())
Upper(day) ==
    CASE day = "ma" -> "MA" [] day = "di" -> "DI" [] day = "wo" -> "WO"
      [] day = "do" -> "DO" [] day = "vr" -> "VR" [] day = "za" -> "ZA"
      [] day = "zo" -> "ZO"

DayFlag(r, day) == r[Upper(day)]

\* WEEK_DAYS[:n]
Prefix(s, n) == SubSeq(s, 1, n)

----------------------------------------------------------------------------
(* parse_time *)

\* dateutil.parser.parse(value) succeeds on "hh:mm" with hh <= 23, mm <= 59
Parsable(v) == v.tag = "str" /\ ~v.va /\ v.hh \in 0..23 /\ v.mm \in 0..59

\* mutant of parse_time: the ParserError is not caught; the result of a raise
\* is written as the minute before 00:00, which no time is
parse_time_NoCatch(value, default) ==
    IF value.tag # "None"
    THEN LET v1 == IF value = T(24, 0) THEN T(23, 59) ELSE value
             v2 == IF v1.tag = "str" /\ v1.va THEN [v1 EXCEPT !.va = FALSE] ELSE v1
         IN  IF Parsable(v2) THEN Time(v2.hh, v2.mm) ELSE Time(0, 0) - 1
    ELSE default

parse_time(value, default) ==
    IF value.tag # "None"
    THEN LET v1 == IF value = T(24, 0) THEN T(23, 59) ELSE value
             v2 == IF v1.tag = "str" /\ v1.va THEN [v1 EXCEPT !.va = FALSE] ELSE v1
         IN  IF Parsable(v2) THEN Time(v2.hh, v2.mm) ELSE default
    ELSE default

----------------------------------------------------------------------------
(* add_a_minute, remove_a_minute: datetime arithmetic, then .time() *)

add_a_minute(time) == (time + 1) % MinutesPerDay

remove_a_minute(time) == (time + MinutesPerDay - 1) % MinutesPerDay

----------------------------------------------------------------------------
(* get_modes *)

\* str.replace("'", "\\'") on the remarks the model draws
EscapeQuote(s) == IF s = "it's" THEN "it\\'s" ELSE s

ModeBase(r) ==
    [soort |-> Or(r.SOORT, "FISCAAL"),
     bord |-> Or(r.BORD, ""),
     e_type |-> Or(r.E_TYPE, ""),
     kenteken |-> r.KENTEKEN]

HasTvm(r) ==
    \/ TruthyT(r.TVM_BEGINT)
    \/ TruthyT(r.TVM_EINDT)
    \/ Truthy(r.TVM_BEGIND)
    \/ Truthy(r.TVM_EINDD)
    \/ Truthy(r.TVM_OPMERK)

\* mutant of TvmModes: the kind of the temporary-measure mode is that of base
TvmModes_BaseKind(r) ==
    IF HasTvm(r)
    THEN << Update(ModeBase(r),
                   [begin_datum |-> Or(r.TVM_BEGIND, ""),
                    eind_datum |-> Or(r.TVM_EINDD, ""),
                    opmerking |-> EscapeQuote(Or(r.TVM_OPMERK, "")),
                    begin_tijd |-> parse_time(r.TVM_BEGINT, Time(0, 0)),
                    eind_tijd |-> parse_time(r.TVM_EINDT, Time(23, 59))]) >>
    ELSE << >>

TvmModes(r) ==
    IF HasTvm(r)
    THEN << Update(ModeBase(r),
                   [soort |-> Or(r.E_TYPE, "FISCAAL"),
                    begin_datum |-> Or(r.TVM_BEGIND, ""),
                    eind_datum |-> Or(r.TVM_EINDD, ""),
                    opmerking |-> EscapeQuote(Or(r.TVM_OPMERK, "")),
                    begin_tijd |-> parse_time(r.TVM_BEGINT, Time(0, 0)),
                    eind_tijd |-> parse_time(r.TVM_EINDT, Time(23, 59))]) >>
    ELSE << >>

\* mutant of Slot1Modes: the split is taken for begin > end only
Slot1Modes_SplitOnGreater(r) ==
    IF TruthyT(r.BEGINTIJD1) \/ TruthyT(r.EINDTIJD1)
    THEN LET begin_tijd == parse_time(r.BEGINTIJD1, Time(0, 0))
             eind_tijd == parse_time(r.EINDTIJD1, Time(23, 59))
         IN  IF begin_tijd <= eind_tijd
             THEN << Update(ModeBase(r),
                            [begin_tijd |-> begin_tijd, eind_tijd |-> eind_tijd]) >>
             ELSE << Update(ModeBase(r),
                            [begin_tijd |-> Time(0, 0), eind_tijd |-> eind_tijd]),
                     Update(ModeBase(r),
                            [begin_tijd |-> begin_tijd, eind_tijd |-> Time(23, 59)]) >>
    ELSE << >>

Slot1Modes(r) ==
    IF TruthyT(r.BEGINTIJD1) \/ TruthyT(r.EINDTIJD1)
    THEN LET begin_tijd == parse_time(r.BEGINTIJD1, Time(0, 0))
             eind_tijd == parse_time(r.EINDTIJD1, Time(23, 59))
         IN  IF begin_tijd < eind_tijd
             THEN << Update(ModeBase(r),
                            [begin_tijd |-> begin_tijd, eind_tijd |-> eind_tijd]) >>
             ELSE << Update(ModeBase(r),
                            [begin_tijd |-> Time(0, 0), eind_tijd |-> eind_tijd]),
                     Update(ModeBase(r),
                            [begin_tijd |-> begin_tijd, eind_tijd |-> Time(23, 59)]) >>
    ELSE << >>

Slot2Modes(r) ==
    IF TruthyT(r.BEGINTIJD2) \/ TruthyT(r.EINDTIJD2)
    THEN << Update(ModeBase(r),
                   [begin_tijd |-> parse_time(r.BEGINTIJD2, Time(0, 0)),
                    eind_tijd |-> parse_time(r.EINDTIJD2, Time(23, 59))]) >>
    ELSE << >>

\* mutant of get_modes: the temporary measure gives no mode
get_modes_NoTvm(r) == Slot1Modes(r) \o Slot2Modes(r)

get_modes(r) == TvmModes(r) \o Slot1Modes(r) \o Slot2Modes(r)

----------------------------------------------------------------------------
(* days_from_row *)

\* mutant of AnyDayFlag: a flag counts as soon as it is not None
AnyDayFlag_NotNone(r) == \E i \in 1..Len(WEEK_DAYS) : DayFlag(r, WEEK_DAYS[i]) # None

AnyDayFlag(r) == \E i \in 1..Len(WEEK_DAYS) : Truthy(DayFlag(r, WEEK_DAYS[i]))

DayGiven(r, day) == DayFlag(r, day) # None

days_from_row(r) ==
    IF Truthy(r.MA_VR) THEN Prefix(WEEK_DAYS, 4)
    ELSE IF Truthy(r.MA_ZA) THEN Prefix(WEEK_DAYS, 5)
    ELSE IF ~AnyDayFlag(r) THEN WEEK_DAYS
    ELSE SelectSeq(WEEK_DAYS, LAMBDA day : DayGiven(r, day))

----------------------------------------------------------------------------
(* create_regimes *)

\* `row.record.PARKEER_ID or ""`: a missing identifier becomes "", which is the
\* empty digit sequence as well
ParentId(r) == r.PARKEER_ID

base_data(r) ==
    [parent_id |-> ParentId(r),
     soort |-> "FISCAAL",
     e_type |-> "",
     bord |-> "",
     begin_tijd |-> Time(0, 0),
     eind_tijd |-> Time(23, 59),
     opmerking |-> Or(r.OPMERKING, ""),
     dagen |-> WEEK_DAYS,
     kenteken |-> None,
     begin_datum |-> None,
     eind_datum |-> None]

\* mutant of NoModeRegime: the record's own kind and sign are not copied
NoModeRegime_BaseOnly(r) == base_data(r)

\* mutant of NoModeRegime: the license plate is not copied
NoModeRegime_NoPlate(r) ==
    Update(base_data(r),
           [soort |-> Or(r.SOORT, "FISCAAL"),
            bord |-> Or(r.BORD, ""),
            e_type |-> Or(r.E_TYPE, "")])

\* the regime returned when get_modes(row) is empty
NoModeRegime(r) ==
    Update(base_data(r),
           [soort |-> Or(r.SOORT, "FISCAAL"),
            bord |-> Or(r.BORD, ""),
            e_type |-> Or(r.E_TYPE, ""),
            kenteken |-> r.KENTEKEN])

\* mutant of SodMode: the filler ends two minutes before the mode begins
SodMode_EndsEarly(r, dys, mode_start, mode) ==
    [base_data(r) EXCEPT !.dagen = dys,
                         !.begin_tijd = mode_start,
                         !.eind_tijd = remove_a_minute(remove_a_minute(mode.begin_tijd))]

\* mutant of SodMode: the filler is copied from a template that the mode's
\* data has been written into
SodMode_FromMode(r, dys, mode_start, mode) ==
    [Update(base_data(r), mode) EXCEPT !.dagen = dys,
                                       !.begin_tijd = mode_start,
                                       !.eind_tijd = remove_a_minute(mode.begin_tijd)]

\* filler before a mode that begins after the cursor mode_start
SodMode(r, dys, mode_start, mode) ==
    [base_data(r) EXCEPT !.dagen = dys,
                         !.begin_tijd = mode_start,
                         !.eind_tijd = remove_a_minute(mode.begin_tijd)]

\* a mode as a regime
ModeData(r, dys, mode) == [Update(base_data(r), mode) EXCEPT !.dagen = dys]

\* mutant of EodMode: the filler begins at the minute the last mode ends
EodMode_NoMinute(r, dys, mode) ==
    [base_data(r) EXCEPT !.dagen = dys,
                         !.begin_tijd = mode.eind_tijd]

\* mutant of EodMode: the filler keeps the day list of base_data
EodMode_BaseDays(r, dys, mode) ==
    [base_data(r) EXCEPT !.begin_tijd = add_a_minute(mode.eind_tijd)]

\* filler after the last mode
EodMode(r, dys, mode) ==
    [base_data(r) EXCEPT !.dagen = dys,
                         !.begin_tijd = add_a_minute(mode.eind_tijd)]

\* mutant of WalkModes: the cursor is not moved behind a mode
RECURSIVE WalkModes_NoAdvance(_, _, _, _, _, _)
WalkModes_NoAdvance(r, dys, ms, i, mode_start, out) ==
    IF i > Len(ms) THEN out
    ELSE LET mode == ms[i]
             out1 == IF mode.begin_tijd > mode_start
                     THEN Append(out, SodMode(r, dys, mode_start, mode))
                     ELSE out
             out2 == Append(out1, ModeData(r, dys, mode))
         IN  WalkModes_NoAdvance(r, dys, ms, i + 1, mode_start, out2)

\* the body of `for mode in modes`, from the i-th mode on
RECURSIVE WalkModes(_, _, _, _, _, _)
WalkModes(r, dys, ms, i, mode_start, out) ==
    IF i > Len(ms) THEN out
    ELSE LET mode == ms[i]
             out1 == IF mode.begin_tijd > mode_start
                     THEN Append(out, SodMode(r, dys, mode_start, mode))
                     ELSE out
             out2 == Append(out1, ModeData(r, dys, mode))
         IN  WalkModes(r, dys, ms, i + 1, add_a_minute(mode.eind_tijd), out2)

\* mode_start when the loop has ended: the last assignment of line 417
Cursor(ms) ==
    IF Len(ms) = 0 THEN Time(0, 0) ELSE add_a_minute(ms[Len(ms)].eind_tijd)

\* mutant of create_regimes: the closing filler is emitted when the cursor,
\* not the end of the last mode, is before mode_end
create_regimes_CursorBefore(r) ==
    LET dys == days_from_row(r)
        mode_end == Time(23, 59)
        ms == get_modes(r)
    IN  IF Len(ms) = 0 THEN << NoModeRegime(r) >>
        ELSE LET out == WalkModes(r, dys, ms, 1, Time(0, 0), << >>)
                 mode == ms[Len(ms)]
             IN  IF add_a_minute(mode.eind_tijd) < mode_end
                 THEN Append(out, EodMode(r, dys, mode))
                 ELSE out

create_regimes(r) ==
    LET dys == days_from_row(r)
        mode_end == Time(23, 59)
        ms == get_modes(r)
    IN  IF Len(ms) = 0 THEN << NoModeRegime(r) >>
        ELSE LET out == WalkModes(r, dys, ms, 1, Time(0, 0), << >>)
                 mode == ms[Len(ms)]
             IN  IF mode.eind_tijd < mode_end
                 THEN Append(out, EodMode(r, dys, mode))
                 ELSE out

----------------------------------------------------------------------------
(* Records *)

\* a record with every field unset and the identifier "1"
BlankRow ==
    [PARKEER_ID |-> <<1>>,
     SOORT |-> None, BORD |-> None, E_TYPE |-> None, KENTEKEN |-> None,
     OPMERKING |-> None,
     TVM_BEGINT |-> NoneT, TVM_EINDT |-> NoneT,
     TVM_BEGIND |-> None, TVM_EINDD |-> None, TVM_OPMERK |-> None,
     BEGINTIJD1 |-> NoneT, EINDTIJD1 |-> NoneT,
     BEGINTIJD2 |-> NoneT, EINDTIJD2 |-> NoneT,
     MA_VR |-> None, MA_ZA |-> None,
     MA |-> None, DI |-> None, WO |-> None, DO |-> None,
     VR |-> None, ZA |-> None, ZO |-> None,
     BUURTCODE |-> "A00a", STRAATNAAM |-> "Dam", TYPE |-> None, AANTAL |-> "1",
     shapeTypeName |-> "POLYGON"]

\* values of a weekday flag: None, falsy but not None, set
FlagValues == {None, "", "J"}

\* the weekday flags of a record, every combination
DayRows ==
    { Update(BlankRow,
             [MA_VR |-> f[1], MA_ZA |-> f[2], MA |-> f[3], DI |-> f[4], WO |-> f[5],
              DO |-> f[6], VR |-> f[7], ZA |-> f[8], ZO |-> f[9]]) :
      f \in [1..9 -> FlagValues] }

\* raw time texts of slot 1, of slot 2 and of the temporary measure
Slot1Texts == {NoneT, T(0, 0), T(6, 0), T(20, 0), T(23, 59)}
Slot2Texts == {NoneT, Va(8, 0), T(24, 0)}
TvmBeginTexts == {NoneT, EmptyT, T(12, 0)}
TvmEindTexts == {NoneT, T(6, 0), T(18, 0)}

\* the weekday flags the regime records carry
RegimeFlags ==
    { [MA_VR |-> None, MA |-> None, DI |-> None],
      [MA_VR |-> "J", MA |-> None, DI |-> None],
      [MA_VR |-> None, MA |-> "J", DI |-> ""] }

\* the sign of a record: none, or sign type, sign text and license plate
RegimeSigns ==
    { [e_type |-> None, bord |-> None, kenteken |-> None],
      [e_type |-> "E9", bord |-> "ma-vr", kenteken |-> "AB-12-C"] }

\* records for get_modes: every combination of the fields it reads
ModeRows ==
    { Update(BlankRow,
             [BEGINTIJD1 |-> b1, EINDTIJD1 |-> e1, BEGINTIJD2 |-> b2, EINDTIJD2 |-> e2,
              TVM_BEGINT |-> tb, TVM_EINDT |-> te,
              TVM_BEGIND |-> x[1], TVM_EINDD |-> x[2], TVM_OPMERK |-> x[3],
              SOORT |-> x[4], E_TYPE |-> x[5]]) :
      b1 \in {NoneT, T(6, 0), T(20, 0)}, e1 \in {NoneT, T(6, 0), T(0, 0)},
      b2 \in {NoneT, T(25, 99)}, e2 \in {NoneT, Va(8, 0)},
      tb \in TvmBeginTexts, te \in {NoneT, T(6, 0)},
      x \in {None, "2021-03-01"} \X {None, ""} \X {None, "it's"}
            \X {None, "MULDER"} \X {None, "E9"} }

\* records for create_regimes
RegimeRows ==
    { Update(BlankRow,
             [BEGINTIJD1 |-> b1, EINDTIJD1 |-> e1, BEGINTIJD2 |-> b2, EINDTIJD2 |-> e2,
              TVM_BEGINT |-> tb, TVM_EINDT |-> te,
              MA_VR |-> f.MA_VR, MA |-> f.MA, DI |-> f.DI,
              SOORT |-> x[1], E_TYPE |-> x[2].e_type, BORD |-> x[2].bord,
              KENTEKEN |-> x[2].kenteken]) :
      b1 \in Slot1Texts, e1 \in Slot1Texts, b2 \in Slot2Texts, e2 \in Slot2Texts,
      tb \in TvmBeginTexts, te \in TvmEindTexts, f \in RegimeFlags,
      x \in {None, "MULDER"} \X RegimeSigns }

----------------------------------------------------------------------------
(* The functions applied to one record *)

InitRow(rows) ==
    /\ row \in rows
    /\ pc = "input"
    /\ modes = << >>
    /\ days = << >>
    /\ output = << >>
    /\ ids = << >>
    /\ duplicates = << >>
    /\ parkeervakken_sql = << >>
    /\ regimes_sql = << >>
    /\ base_temp = << >>
    /\ regimes_temp = << >>
    /\ printed = << >>
    /\ files = 0
    /\ nrows = 0
    /\ read_ids = << >>
    /\ cursor = Time(0, 0)
    /\ soort = None
    /\ text = NoneT
    /\ bound = Time(0, 0)
    /\ parsed = Time(0, 0)
    /\ GobIdle

CallDaysFromRow ==
    /\ pc = "input"
    /\ days' = days_from_row(row)
    /\ pc' = "done"
    /\ UNCHANGED <<row, modes, output, cursor, pvars, runvars>>
    /\ UNCHANGED gvars

CallGetModes ==
    /\ pc = "input"
    /\ modes' = get_modes(row)
    /\ pc' = "done"
    /\ UNCHANGED <<row, days, output, cursor, pvars, runvars>>
    /\ UNCHANGED gvars

\* create_regimes(row); days and modes are its local variables
CallCreateRegimes ==
    /\ pc = "input"
    /\ days' = days_from_row(row)
    /\ modes' = get_modes(row)
    /\ output' = create_regimes(row)
    /\ cursor' = Cursor(get_modes(row))
    /\ pc' = "done"
    /\ UNCHANGED <<row, pvars, runvars>>
    /\ UNCHANGED gvars

InitDays == InitRow(DayRows)
NextDays == CallDaysFromRow
SpecDays == InitDays /\ [][NextDays]_vars

InitModes == InitRow(ModeRows)
NextModes == CallGetModes
SpecModes == InitModes /\ [][NextModes]_vars

\* records whose last mode ends at, one minute before or well before 23:59
TailRows ==
    { Update(BlankRow, [BEGINTIJD1 |-> b1, EINDTIJD1 |-> e1, BEGINTIJD2 |-> b2,
                        EINDTIJD2 |-> e2, MA_VR |-> f]) :
      b1 \in {NoneT, T(6, 0), T(23, 58)},
      e1 \in {NoneT, T(20, 0), T(23, 57), T(23, 58), T(23, 59)},
      b2 \in {NoneT, T(21, 0)},
      e2 \in {NoneT, T(22, 0), T(23, 58), T(24, 0)},
      f \in {None, "J"} }

InitTail == InitRow(TailRows)
NextTail == CallCreateRegimes
SpecTail == InitTail /\ [][NextTail]_vars

InitRegimes == InitRow(RegimeRows)
NextRegimes == CallCreateRegimes
SpecRegimes == InitRegimes /\ [][NextRegimes]_vars

----------------------------------------------------------------------------
(* import_data and run_imports *)

MaxFiles == 2       \* shapefiles in the directory, at most
MaxRows == 3        \* records read in one run, at most

\* int(row.record.PARKEER_ID); it raises on a missing identifier
HasInt(digits) == Len(digits) > 0

RECURSIVE IntOf(_)
IntOf(digits) ==
    IF Len(digits) = 1 THEN digits[1]
    ELSE 10 * IntOf(SubSeq(digits, 1, Len(digits) - 1)) + digits[Len(digits)]

\* x in list
In(x, list) == \E i \in 1..Len(list) : list[i] = x

\* time.strftime("%H:%M"), as <<hour, minute>>
StrfTime(time) == <<time \div 60, time % 60>>

\* E_TYPES.get(e_type, ""), for the sign types the model draws
E_TYPES_get(e_type) ==
    IF e_type = "E9"
    THEN "Parkeergelegenheid alleen bestemd voor vergunninghouders"
    ELSE ""

\* `'...' if value else NULL`
OrNull(value) == IF Truthy(value) THEN value ELSE "NULL"

\* mutant of create_parkeervaak: the identifier is written as the integer read
\* from it, not as the text of the record
create_parkeervaak_IntId(r, kind) ==
    [parkeer_id |-> << IntOf(r.PARKEER_ID) >>,
     buurtcode |-> r.BUURTCODE,
     straatnaam |-> EscapeQuote(r.STRAATNAAM),
     soort |-> Or(r.SOORT, kind),
     type |-> Or(r.TYPE, ""),
     aantal |-> r.AANTAL,
     geometry |-> IF r.shapeTypeName = "POLYGON" THEN "ST_GeometryFromText" ELSE "",
     e_type |-> Or(r.E_TYPE, "")]

\* mutant of DominantKind: the kind of the first regime, however many there are
DominantKind_First(regimes) == regimes[1].soort

\* import_data: the kind handed to create_parkeervaak
DominantKind(regimes) == IF Len(regimes) = 1 THEN regimes[1].soort ELSE "FISCAAL"

create_parkeervaak(r, kind) ==
    [parkeer_id |-> r.PARKEER_ID,
     buurtcode |-> r.BUURTCODE,
     straatnaam |-> EscapeQuote(r.STRAATNAAM),
     soort |-> Or(r.SOORT, kind),
     type |-> Or(r.TYPE, ""),
     aantal |-> r.AANTAL,
     geometry |-> IF r.shapeTypeName = "POLYGON" THEN "ST_GeometryFromText" ELSE "",
     e_type |-> Or(r.E_TYPE, "")]

\* base_regime_sql.format(...) for one regime of the record
RegimeSql(r, mode) ==
    [parent_id |-> r.PARKEER_ID,
     soort |-> mode.soort,
     e_type |-> mode.e_type,
     e_type_description |-> E_TYPES_get(mode.e_type),
     bord |-> mode.bord,
     begin_tijd |-> StrfTime(mode.begin_tijd),
     eind_tijd |-> StrfTime(mode.eind_tijd),
     opmerking |-> mode.opmerking,
     dagen |-> mode.dagen,
     kenteken |-> OrNull(mode.kenteken),
     begin_datum |-> OrNull(mode.begin_datum),
     eind_datum |-> OrNull(mode.eind_datum),
     aantal |-> r.AANTAL]

\* identifiers of the records of a run: "1", "01", "2" and a missing one
RunIds == { <<1>>, <<0, 1>>, <<2>>, << >> }

\* records of a run: one without modes, one with a slot 1 from 06:00 to 20:00
RunRows ==
    { Update(BlankRow, [PARKEER_ID |-> id, SOORT |-> x[1], BEGINTIJD1 |-> x[2],
                        EINDTIJD1 |-> x[3]]) :
      id \in RunIds, x \in { <<"MULDER", NoneT, NoneT>>, <<None, T(6, 0), T(20, 0)>> } }

Init ==
    /\ pc = "run_imports"
    /\ row = BlankRow
    /\ modes = << >>
    /\ days = << >>
    /\ output = << >>
    /\ ids = << >>
    /\ duplicates = << >>
    /\ parkeervakken_sql = << >>
    /\ regimes_sql = << >>
    /\ base_temp = << >>
    /\ regimes_temp = << >>
    /\ printed = << >>
    /\ files = 0
    /\ nrows = 0
    /\ read_ids = << >>
    /\ cursor = Time(0, 0)
    /\ soort = None
    /\ text = NoneT
    /\ bound = Time(0, 0)
    /\ parsed = Time(0, 0)
    /\ GobIdle

\* mutant of StartFile: every shapefile starts with an empty ids list
StartFile_FreshIds ==
    /\ pc = "run_imports"
    /\ files < MaxFiles
    /\ files' = files + 1
    /\ ids' = << >>
    /\ parkeervakken_sql' = << >>
    /\ regimes_sql' = << >>
    /\ duplicates' = << >>
    /\ pc' = "reading"
    /\ UNCHANGED <<row, fvars, base_temp, regimes_temp, printed, nrows, read_ids, soort>>
    /\ UNCHANGED gvars

\* run_imports: the next shapefile; import_data starts with empty lists
StartFile ==
    /\ pc = "run_imports"
    /\ files < MaxFiles
    /\ files' = files + 1
    /\ parkeervakken_sql' = << >>
    /\ regimes_sql' = << >>
    /\ duplicates' = << >>
    /\ pc' = "reading"
    /\ UNCHANGED <<row, fvars, ids, base_temp, regimes_temp, printed, nrows, read_ids,
                   soort>>
    /\ UNCHANGED gvars

\* run_imports: no shapefile is left
EndRun ==
    /\ pc = "run_imports"
    /\ pc' = "finished"
    /\ UNCHANGED <<row, fvars, runvars>>
    /\ UNCHANGED gvars

\* import_data, loop body: int(PARKEER_ID) raises; the exception leaves
\* import_data and run_imports
RaiseOnId(r) ==
    /\ ~HasInt(r.PARKEER_ID)
    /\ pc' = "failed"
    /\ UNCHANGED <<fvars, ids, duplicates, parkeervakken_sql, regimes_sql, soort>>

\* mutant of RejectDuplicate: the identifier of the duplicate is recorded again
RejectDuplicate_Records(r) ==
    /\ HasInt(r.PARKEER_ID)
    /\ In(IntOf(r.PARKEER_ID), ids)
    /\ duplicates' = Append(duplicates, r.PARKEER_ID)
    /\ ids' = Append(ids, IntOf(r.PARKEER_ID))
    /\ pc' = "reading"
    /\ UNCHANGED <<fvars, parkeervakken_sql, regimes_sql, soort>>

\* import_data, loop body: the identifier is in ids
RejectDuplicate(r) ==
    /\ HasInt(r.PARKEER_ID)
    /\ In(IntOf(r.PARKEER_ID), ids)
    /\ duplicates' = Append(duplicates, r.PARKEER_ID)
    /\ pc' = "reading"
    /\ UNCHANGED <<fvars, ids, parkeervakken_sql, regimes_sql, soort>>

\* import_data, loop body: a new identifier
AcceptRow(r) ==
    /\ HasInt(r.PARKEER_ID)
    /\ ~In(IntOf(r.PARKEER_ID), ids)
    /\ ids' = Append(ids, IntOf(r.PARKEER_ID))
    /\ LET regimes == create_regimes(r)
       IN  /\ output' = regimes
           /\ soort' = DominantKind(regimes)
           /\ parkeervakken_sql' =
                  Append(parkeervakken_sql, create_parkeervaak(r, DominantKind(regimes)))
           /\ regimes_sql' = regimes_sql \o
                  [i \in 1..Len(regimes) |-> RegimeSql(r, regimes[i])]
    /\ pc' = "reading"
    /\ UNCHANGED <<modes, days, cursor, pvars, duplicates>>

\* import_data: one record of the shapefile
ImportRow ==
    /\ pc = "reading"
    /\ nrows < MaxRows
    /\ \E r \in RunRows :
        /\ row' = r
        /\ nrows' = nrows + 1
        /\ read_ids' = Append(read_ids, r.PARKEER_ID)
        /\ \/ RaiseOnId(r)
           \/ RejectDuplicate(r)
           \/ AcceptRow(r)
    /\ UNCHANGED <<base_temp, regimes_temp, printed, files>>
    /\ UNCHANGED gvars

\* import_data: the shapefile has no further record
EndOfRows ==
    /\ pc = "reading"
    /\ pc' = "insert_spots"
    /\ UNCHANGED <<row, fvars, runvars>>
    /\ UNCHANGED gvars

\* mutant of InsertSpots: a failed insert of the spots is passed over
InsertSpots_GoesOn ==
    /\ pc = "insert_spots"
    /\ IF Len(parkeervakken_sql) > 0
       THEN \/ /\ base_temp' = base_temp \o parkeervakken_sql
               /\ pc' = "insert_regimes"
            \/ /\ pc' = "insert_regimes"
               /\ UNCHANGED base_temp
       ELSE /\ pc' = "insert_regimes"
            /\ UNCHANGED base_temp
    /\ UNCHANGED <<row, fvars, ids, duplicates, parkeervakken_sql, regimes_sql,
                   regimes_temp, printed, files, nrows, read_ids, soort>>
    /\ UNCHANGED gvars

\* import_data: hook.run(create_parkeervakken_sql) when there are spots
InsertSpots ==
    /\ pc = "insert_spots"
    /\ IF Len(parkeervakken_sql) > 0
       THEN \/ /\ base_temp' = base_temp \o parkeervakken_sql
               /\ pc' = "insert_regimes"
            \/ /\ pc' = "failed"
               /\ UNCHANGED base_temp
       ELSE /\ pc' = "insert_regimes"
            /\ UNCHANGED base_temp
    /\ UNCHANGED <<row, fvars, ids, duplicates, parkeervakken_sql, regimes_sql,
                   regimes_temp, printed, files, nrows, read_ids, soort>>
    /\ UNCHANGED gvars

\* import_data: hook.run(create_regimes_sql) when there are regimes
InsertRegimes ==
    /\ pc = "insert_regimes"
    /\ IF Len(regimes_sql) > 0
       THEN \/ /\ regimes_temp' = regimes_temp \o regimes_sql
               /\ pc' = "returned"
            \/ /\ pc' = "failed"
               /\ UNCHANGED regimes_temp
       ELSE /\ pc' = "returned"
            /\ UNCHANGED regimes_temp
    /\ UNCHANGED <<row, fvars, ids, duplicates, parkeervakken_sql, regimes_sql,
                   base_temp, printed, files, nrows, read_ids, soort>>
    /\ UNCHANGED gvars

\* run_imports: print the duplicates import_data returned, if any
ReportDuplicates ==
    /\ pc = "returned"
    /\ printed' = IF Len(duplicates) > 0 THEN Append(printed, duplicates) ELSE printed
    /\ pc' = "run_imports"
    /\ UNCHANGED <<row, fvars, ids, duplicates, parkeervakken_sql, regimes_sql,
                   base_temp, regimes_temp, files, nrows, read_ids, soort>>
    /\ UNCHANGED gvars

Next ==
    \/ StartFile
    \/ EndRun
    \/ ImportRow
    \/ EndOfRows
    \/ InsertSpots
    \/ InsertRegimes
    \/ ReportDuplicates

Spec == Init /\ [][Next]_vars

----------------------------------------------------------------------------
(* The spot of one record: lines 99-104 of import_data *)

SpotOfRow ==
    /\ pc = "input"
    /\ days' = days_from_row(row)
    /\ modes' = get_modes(row)
    /\ cursor' = Cursor(get_modes(row))
    /\ LET regimes == create_regimes(row)
       IN  /\ output' = regimes
           /\ soort' = DominantKind(regimes)
           /\ parkeervakken_sql' = << create_parkeervaak(row, DominantKind(regimes)) >>
    /\ pc' = "done"
    /\ UNCHANGED <<row, pvars, ids, duplicates, regimes_sql, base_temp, regimes_temp,
                   printed, files, nrows, read_ids>>
    /\ UNCHANGED gvars

InitSpot == InitRow(RegimeRows)
NextSpot == SpotOfRow
SpecSpot == InitSpot /\ [][NextSpot]_vars

----------------------------------------------------------------------------
(* parse_time on one value *)

\* hours and minutes of the texts, in and out of the range of a clock
ParseHours == {0, 8, 23, 24, 25}
ParseMinutes == {0, 59, 60, 99}

\* None, "", "hh:mm" and "va hh:mm"
ParseTexts ==
    {NoneT, EmptyT}
        \cup { T(h, m) : h \in ParseHours, m \in ParseMinutes }
        \cup { Va(h, m) : h \in ParseHours, m \in ParseMinutes }

\* the defaults get_modes passes: 00:00 for begin times, 23:59 for end times
ParseDefaults == { Time(0, 0), Time(23, 59) }

InitParse ==
    /\ text \in ParseTexts
    /\ bound \in ParseDefaults
    /\ parsed = Time(0, 0)
    /\ pc = "input"
    /\ row = BlankRow
    /\ modes = << >>
    /\ days = << >>
    /\ output = << >>
    /\ ids = << >>
    /\ duplicates = << >>
    /\ parkeervakken_sql = << >>
    /\ regimes_sql = << >>
    /\ base_temp = << >>
    /\ regimes_temp = << >>
    /\ printed = << >>
    /\ files = 0
    /\ nrows = 0
    /\ read_ids = << >>
    /\ cursor = Time(0, 0)
    /\ soort = None
    /\ GobIdle

CallParseTime ==
    /\ pc = "input"
    /\ parsed' = parse_time(text, bound)
    /\ pc' = "done"
    /\ UNCHANGED <<row, modes, days, output, cursor, text, bound, runvars>>
    /\ UNCHANGED gvars

NextParse == CallParseTime
SpecParse == InitParse /\ [][NextParse]_vars

----------------------------------------------------------------------------
(* HttpGobOperator: _fetch_headers and execute *)

MaxAvailable == 3   \* records the endpoint holds, at most
MaxTime == 9        \* seconds the clock of _fetch_headers runs

\* params.get("batch_size", ...), params.get("max_records", ...)
BatchSizes == {1, 2}
MaxRecords == {NoLimit, 1, 2, 3}

\* token_info["expires_in"], in seconds
ExpiresIn == {1, 3}

\* the import of the shapefiles is not running
ImportIdle ==
    /\ row = BlankRow
    /\ modes = << >>
    /\ days = << >>
    /\ output = << >>
    /\ ids = << >>
    /\ duplicates = << >>
    /\ parkeervakken_sql = << >>
    /\ regimes_sql = << >>
    /\ base_temp = << >>
    /\ regimes_temp = << >>
    /\ printed = << >>
    /\ files = 0
    /\ nrows = 0
    /\ read_ids = << >>
    /\ cursor = Time(0, 0)
    /\ soort = None
    /\ text = NoneT
    /\ bound = Time(0, 0)
    /\ parsed = Time(0, 0)

importvars == <<row, fvars, runvars>>

\* the condition of line 82
NeedsToken == access_token = NoToken \/ now - 5 > token_expires_time

\* _fetch_headers; tokens are numbered in the order they are fetched
fetch_headers(expires_in) ==
    IF ~protected
    THEN /\ headers' = [Authorization |-> NoToken]
         /\ UNCHANGED <<access_token, token_expires_time>>
    ELSE IF NeedsToken
         THEN /\ access_token' = access_token + 1
              /\ token_expires_time' = now + expires_in
              /\ headers' = [Authorization |-> access_token + 1]
         ELSE /\ headers' = [Authorization |-> access_token]
              /\ UNCHANGED <<access_token, token_expires_time>>

\* records in the batch after cursor_pos
BatchLen == IF available - cursor_pos < batch_size
            THEN available - cursor_pos ELSE batch_size

InitGob ==
    /\ pc = "request"
    /\ ImportIdle
    /\ max_records \in MaxRecords
    /\ batch_size \in BatchSizes
    /\ available \in 0..MaxAvailable
    /\ protected \in BOOLEAN
    /\ cursor_pos = 0
    /\ records_loaded = 0
    /\ attempt = 0
    /\ response = ""
    /\ fetched = 0
    /\ loads = 0
    /\ access_token = NoToken
    /\ token_expires_time = 0
    /\ now = 0
    /\ headers = [Authorization |-> NoToken]

\* mutant of RequestFails: the request is given up after four failures
RequestFails_FourTries ==
    /\ pc = "request"
    /\ attempt < 4
    /\ \/ /\ protected /\ NeedsToken
          /\ UNCHANGED <<access_token, token_expires_time, headers>>
       \/ \E e \in ExpiresIn : fetch_headers(e)
    /\ attempt' = attempt + 1
    /\ now' = now + 1
    /\ pc' = IF attempt + 1 = 4 THEN "raised" ELSE "request"
    /\ UNCHANGED <<max_records, batch_size, available, cursor_pos, records_loaded,
                   response, fetched, loads, protected, importvars>>

\* execute, one pass of `for i in range(3)` that ends in the except branch:
\* the token request or the request to the endpoint raised AirflowException;
\* after time.sleep(1) the next pass follows, or the else branch of the for
RequestFails ==
    /\ pc = "request"
    /\ attempt < 3
    /\ \/ /\ protected /\ NeedsToken
          /\ UNCHANGED <<access_token, token_expires_time, headers>>
       \/ \E e \in ExpiresIn : fetch_headers(e)
    /\ attempt' = attempt + 1
    /\ now' = now + 1
    /\ pc' = IF attempt + 1 = 3 THEN "raised" ELSE "request"
    /\ UNCHANGED <<max_records, batch_size, available, cursor_pos, records_loaded,
                   response, fetched, loads, protected, importvars>>

\* execute, a pass that is answered, up to the break of lines 178-181
RequestSucceeds ==
    /\ pc = "request"
    /\ attempt < 3
    /\ \E e \in ExpiresIn : fetch_headers(e)
    /\ attempt' = 0
    /\ response' = IF BatchLen > 0 THEN "records" ELSE "empty"
    /\ fetched' = IF BatchLen > 0 THEN fetched + 1 ELSE fetched
    /\ records_loaded' = records_loaded + batch_size
    /\ pc' = IF \/ BatchLen = 0
                \/ max_records # NoLimit /\ records_loaded + batch_size >= max_records
             THEN "finished"
             ELSE "load"
    /\ UNCHANGED <<max_records, batch_size, available, cursor_pos, loads, protected,
                   now, importvars>>

\* execute, lines 184-193: the batch is written to the table; the cursor of
\* its last record is the index of that record
LoadBatch ==
    /\ pc = "load"
    /\ loads' = loads + 1
    /\ cursor_pos' = cursor_pos + BatchLen
    /\ pc' = "request"
    /\ UNCHANGED <<max_records, batch_size, available, records_loaded, attempt,
                   response, fetched, tvars, importvars>>

NextGob ==
    \/ RequestFails
    \/ RequestSucceeds
    \/ LoadBatch

SpecGob == InitGob /\ [][NextGob]_vars

\* _fetch_headers called again and again while the clock runs
InitHeaders ==
    /\ pc = "waiting"
    /\ ImportIdle
    /\ protected \in BOOLEAN
    /\ max_records = NoLimit
    /\ batch_size = 1
    /\ available = 0
    /\ cursor_pos = 0
    /\ records_loaded = 0
    /\ attempt = 0
    /\ response = ""
    /\ fetched = 0
    /\ loads = 0
    /\ access_token = NoToken
    /\ token_expires_time = 0
    /\ now = 0
    /\ headers = [Authorization |-> NoToken]

\* a second passes
Tick ==
    /\ now < MaxTime
    /\ now' = now + 1
    /\ pc' = "waiting"
    /\ UNCHANGED <<max_records, batch_size, available, cursor_pos, records_loaded,
                   attempt, response, fetched, loads, protected, access_token,
                   token_expires_time, headers, importvars>>

CallFetchHeaders ==
    /\ \E e \in ExpiresIn : fetch_headers(e)
    /\ pc' = "headers"
    /\ UNCHANGED <<max_records, batch_size, available, cursor_pos, records_loaded,
                   attempt, response, fetched, loads, protected, now, importvars>>

NextHeaders ==
    \/ Tick
    \/ CallFetchHeaders

SpecHeaders == InitHeaders /\ [][NextHeaders]_vars

----------------------------------------------------------------------------
(* Properties of create_regimes *)

\* the regime covers minute t
Covers(regime, t) == regime.begin_tijd <= t /\ t <= regime.eind_tijd

\* a comes before b when ordered by begin time (equal begins: by end time)
Before(a, b) ==
    \/ a.begin_tijd < b.begin_tijd
    \/ a.begin_tijd = b.begin_tijd /\ a.eind_tijd <= b.eind_tijd

RECURSIVE Insert(_, _)
Insert(sorted, x) ==
    IF sorted = << >> THEN << x >>
    ELSE IF Before(x, Head(sorted)) THEN << x >> \o sorted
    ELSE << Head(sorted) >> \o Insert(Tail(sorted), x)

RECURSIVE OrderedByBegin(_)
OrderedByBegin(rs) ==
    IF rs = << >> THEN << >>
    ELSE Insert(OrderedByBegin(SubSeq(rs, 1, Len(rs) - 1)), rs[Len(rs)])

Contiguous(rs) ==
    /\ rs[1].begin_tijd = Time(0, 0)
    /\ rs[Len(rs)].eind_tijd = Time(23, 59)
    /\ \A i \in 1..(Len(rs) - 1) : rs[i + 1].begin_tijd = rs[i].eind_tijd + 1

\* C1: for a record with at least one mode, the regimes of create_regimes,
\* ordered by begin time, are contiguous over 00:00-23:59: the first begins at
\* 00:00, the last ends at 23:59 and each next one begins one minute after the
\* previous one ends.
C1_Contiguous ==
    (pc = "done" /\ Len(modes) >= 1) => Contiguous(OrderedByBegin(output))

\* C2: every minute of the day lies inside at least one regime returned by
\* create_regimes, for every record.
C2_EveryMinuteCovered ==
    pc = "done" =>
        \A t \in Time(0, 0)..Time(23, 59) :
            \E i \in 1..Len(output) : Covers(output[i], t)

\* C2 witness: modes that overlap and a mode given in reverse order were
\* walked, and fillers were inserted.
C2_Witness ==
    /\ pc = "done"
    /\ Len(modes) >= 2
    /\ Len(output) > Len(modes)
    /\ \E i \in 1..Len(modes) : modes[i].begin_tijd > modes[i].eind_tijd
    /\ ~Contiguous(OrderedByBegin(output))

\* C3 as stated: a record without modes yields one whole-day regime of kind
\* "FISCAAL".
C3_Original ==
    (pc = "done" /\ Len(modes) = 0) =>
        /\ Len(output) = 1
        /\ output[1].begin_tijd = Time(0, 0)
        /\ output[1].eind_tijd = Time(23, 59)
        /\ output[1].soort = "FISCAAL"

\* C3 amended: a record without modes yields exactly one regime, spanning
\* 00:00-23:59, whose kind is the record's own SOORT when that is given and
\* "FISCAAL" when it is not.
C3_WholeDayOwnKind ==
    (pc = "done" /\ Len(modes) = 0) =>
        /\ Len(output) = 1
        /\ output[1].begin_tijd = Time(0, 0)
        /\ output[1].eind_tijd = Time(23, 59)
        /\ output[1].soort = (IF row.SOORT \in {None, ""} THEN "FISCAAL" ELSE row.SOORT)

C3_Witness ==
    /\ pc = "done"
    /\ Len(modes) = 0
    /\ row.SOORT = "MULDER"
    /\ Len(output) = 1

\* C10: all regimes returned by one create_regimes call carry the same day
\* list.
C10_SameDays ==
    pc = "done" =>
        \A i, j \in 1..Len(output) : output[i].dagen = output[j].dagen

\* C10 witness: fillers before and after a mode, for a record whose day list
\* is not the whole week.
C10_Witness ==
    /\ pc = "done"
    /\ Len(modes) = 1
    /\ Len(output) = 3
    /\ days # WEEK_DAYS
    /\ output[3].dagen = days

\* the record has a slot 1, a slot 2
HasSlot1(r) == TruthyT(r.BEGINTIJD1) \/ TruthyT(r.EINDTIJD1)
HasSlot2(r) == TruthyT(r.BEGINTIJD2) \/ TruthyT(r.EINDTIJD2)

\* a filler: a regime of kind "FISCAAL" without sign and plate
IsFiller(regime, begin, eind) ==
    /\ regime.soort = "FISCAAL"
    /\ regime.e_type = "" /\ regime.bord = "" /\ regime.kenteken = None
    /\ regime.begin_tijd = begin
    /\ regime.eind_tijd = eind

Spans(regime, begin, eind) == regime.begin_tijd = begin /\ regime.eind_tijd = eind

\* C11: when the mode list is empty, the single whole-day regime carries the
\* day list that days_from_row resolved for the record.
C11_NoModeDays ==
    (pc = "done" /\ Len(modes) = 0) => output[1].dagen = days

\* C12: a record whose only mode is a slot-1 mode with 00:00 < begin < end <
\* 23:59 gets exactly three regimes, in this order: a FISCAAL filler from 00:00
\* to begin minus one minute, the mode from begin to end, a FISCAAL filler
\* from end plus one minute to 23:59.
C12_FillerModeFiller ==
    (/\ pc = "done"
     /\ ~HasTvm(row) /\ ~HasSlot2(row) /\ Len(modes) = 1
     /\ Time(0, 0) < modes[1].begin_tijd
     /\ modes[1].begin_tijd < modes[1].eind_tijd
     /\ modes[1].eind_tijd < Time(23, 59)) =>
        /\ Len(output) = 3
        /\ IsFiller(output[1], Time(0, 0), modes[1].begin_tijd - 1)
        /\ Spans(output[2], modes[1].begin_tijd, modes[1].eind_tijd)
        /\ output[2].soort = modes[1].soort
        /\ IsFiller(output[3], modes[1].eind_tijd + 1, Time(23, 59))

\* C12 witness: slot 1 from 06:00 to 20:00 gave 00:00-05:59, 06:00-20:00 and
\* 20:01-23:59.
C12_Witness ==
    /\ pc = "done"
    /\ ~HasTvm(row) /\ ~HasSlot2(row)
    /\ row.BEGINTIJD1 = T(6, 0) /\ row.EINDTIJD1 = T(20, 0)
    /\ Len(output) = 3
    /\ Spans(output[1], Time(0, 0), Time(5, 59))
    /\ Spans(output[2], Time(6, 0), Time(20, 0))
    /\ Spans(output[3], Time(20, 1), Time(23, 59))

\* C13: a record whose only modes are the two fragments of an overnight slot 1
\* (begin > end + 1 minute) gets the fragment 00:00 to end, one FISCAAL filler
\* from end plus one minute to begin minus one minute, the fragment begin to
\* 23:59, and no other regime.
C13_OvernightFiller ==
    (/\ pc = "done"
     /\ ~HasTvm(row) /\ HasSlot1(row) /\ ~HasSlot2(row)
     /\ parse_time(row.BEGINTIJD1, Time(0, 0))
            > parse_time(row.EINDTIJD1, Time(23, 59)) + 1) =>
        LET begin == parse_time(row.BEGINTIJD1, Time(0, 0))
            eind == parse_time(row.EINDTIJD1, Time(23, 59))
        IN  /\ Len(output) = 3
            /\ Spans(output[1], Time(0, 0), eind)
            /\ IsFiller(output[2], eind + 1, begin - 1)
            /\ Spans(output[3], begin, Time(23, 59))

\* C13 witness: slot 1 from 20:00 to 06:00 gave 00:00-06:00, 06:01-19:59 and
\* 20:00-23:59.
C13_Witness ==
    /\ pc = "done"
    /\ ~HasTvm(row) /\ ~HasSlot2(row)
    /\ row.BEGINTIJD1 = T(20, 0) /\ row.EINDTIJD1 = T(6, 0)
    /\ Len(output) = 3
    /\ Spans(output[1], Time(0, 0), Time(6, 0))
    /\ Spans(output[2], Time(6, 1), Time(19, 59))
    /\ Spans(output[3], Time(20, 0), Time(23, 59))

\* C18: the list returned by create_regimes is in chronological order: no
\* regime begins earlier than the regime before it in the list.
C18_ChronologicalOrder ==
    pc = "done" =>
        \A i \in 1..(Len(output) - 1) :
            output[i + 1].begin_tijd >= output[i].begin_tijd

\* C19: for a record without temporary-measure, slot-1 and slot-2 fields the
\* single whole-day regime carries the record's own sign type and license
\* plate, and its kind is the record's SOORT when that is given and "FISCAAL"
\* only when it is not.
C19_FullOverride ==
    (pc = "done" /\ ~HasTvm(row) /\ ~HasSlot1(row) /\ ~HasSlot2(row)) =>
        /\ Len(output) = 1
        /\ Spans(output[1], Time(0, 0), Time(23, 59))
        /\ output[1].e_type = (IF row.E_TYPE \in {None, ""} THEN "" ELSE row.E_TYPE)
        /\ output[1].kenteken = row.KENTEKEN
        /\ output[1].soort = (IF row.SOORT \in {None, ""} THEN "FISCAAL" ELSE row.SOORT)

\* C19 witness: a record with a kind, a sign type and a plate, and no times.
C19_Witness ==
    /\ pc = "done"
    /\ ~HasTvm(row) /\ ~HasSlot1(row) /\ ~HasSlot2(row)
    /\ row.SOORT = "MULDER" /\ row.E_TYPE = "E9" /\ row.KENTEKEN = "AB-12-C"
    /\ output[1].soort = "MULDER" /\ output[1].e_type = "E9"

\* C20: the minute arithmetic of create_regimes does not wrap across
\* midnight: the cursor computed after a mode that ends at 23:59 is not 00:00.
C20_NoWrap ==
    (pc = "done" /\ Len(modes) >= 1 /\ modes[Len(modes)].eind_tijd = Time(23, 59)) =>
        cursor # Time(0, 0)

----------------------------------------------------------------------------
(* Properties of get_modes *)

\* C5: a slot 1 with begin >= end (after parsing) gives exactly two slot-1
\* modes, 00:00 to the end time and then the begin time to 23:59; a slot 1
\* with begin < end gives exactly one slot-1 mode, from begin to end.  The
\* slot-1 modes follow the temporary-measure mode and precede the slot-2 mode.
C5_Slot1Split ==
    (pc = "done" /\ (TruthyT(row.BEGINTIJD1) \/ TruthyT(row.EINDTIJD1))) =>
        LET begin == parse_time(row.BEGINTIJD1, Time(0, 0))
            eind == parse_time(row.EINDTIJD1, Time(23, 59))
            nTvm == IF HasTvm(row) THEN 1 ELSE 0
            nSlot2 == IF TruthyT(row.BEGINTIJD2) \/ TruthyT(row.EINDTIJD2) THEN 1 ELSE 0
            nSlot1 == Len(modes) - nTvm - nSlot2
            first == modes[nTvm + 1]
            second == modes[nTvm + 2]
        IN  IF begin >= eind
            THEN /\ nSlot1 = 2
                 /\ first.begin_tijd = Time(0, 0) /\ first.eind_tijd = eind
                 /\ second.begin_tijd = begin /\ second.eind_tijd = Time(23, 59)
            ELSE /\ nSlot1 = 1
                 /\ first.begin_tijd = begin /\ first.eind_tijd = eind

\* C5 witness: a slot 1 whose begin and end are the same time was split, after
\* a temporary-measure mode.
C5_Witness ==
    /\ pc = "done"
    /\ row.BEGINTIJD1 = T(6, 0) /\ row.EINDTIJD1 = T(6, 0)
    /\ HasTvm(row)
    /\ Len(modes) >= 3
    /\ modes[2].eind_tijd = Time(6, 0) /\ modes[3].begin_tijd = Time(6, 0)

----------------------------------------------------------------------------
(* Properties of days_from_row *)

\* the weekdays whose flag is set, in the order of WEEK_DAYS
DayIsSet(day) == Truthy(DayFlag(row, day))
SetDays == SelectSeq(WEEK_DAYS, DayIsSet)

\* C6: with the Monday-Friday flag set, days_from_row returns ma, di, wo, do,
\* vr, whatever the other flags are.
C6_MondayToFriday ==
    (pc = "done" /\ Truthy(row.MA_VR)) => days = <<"ma", "di", "wo", "do", "vr">>

\* C7: with the Monday-Friday flag not set and the Monday-Saturday flag set,
\* days_from_row returns ma, di, wo, do, vr, za.
C7_MondayToSaturday ==
    (pc = "done" /\ ~Truthy(row.MA_VR) /\ Truthy(row.MA_ZA)) =>
        days = <<"ma", "di", "wo", "do", "vr", "za">>

\* C8: with neither aggregate flag set and no weekday flag set, days_from_row
\* returns all seven weekdays in the order ma, di, wo, do, vr, za, zo.
C8_AllDays ==
    (pc = "done" /\ ~Truthy(row.MA_VR) /\ ~Truthy(row.MA_ZA) /\ SetDays = << >>) =>
        days = <<"ma", "di", "wo", "do", "vr", "za", "zo">>

\* C8 witness: no flag is set, and some weekday flag is unset without being
\* None.
C8_Witness ==
    /\ pc = "done"
    /\ ~Truthy(row.MA_VR) /\ ~Truthy(row.MA_ZA) /\ SetDays = << >>
    /\ row.WO = "" /\ row.MA_ZA = ""
    /\ Len(days) = 7

\* C9: with neither aggregate flag set and at least one weekday flag set,
\* days_from_row returns exactly the weekdays whose flag is set, however an
\* unset flag is represented.
C9_ExactlySetDays ==
    (pc = "done" /\ ~Truthy(row.MA_VR) /\ ~Truthy(row.MA_ZA) /\ SetDays # << >>) =>
        days = SetDays

----------------------------------------------------------------------------
(* Properties of the import run *)

\* the identifier of the record just read was read before in this run
ReadBefore(id) ==
    \E i \in 1..Len(read_ids) :
        HasInt(read_ids[i]) /\ IntOf(read_ids[i]) = IntOf(id)

\* no two of the spot entries carry the same identifier
DistinctSpots(entries) ==
    \A i, j \in 1..Len(entries) :
        i < j => IntOf(entries[i].parkeer_id) # IntOf(entries[j].parkeer_id)

\* a step of import_data's loop on a record that has an identifier
ReadsRow == nrows' = nrows + 1 /\ HasInt(row'.PARKEER_ID)

\* the record just read is rejected: it is appended to the duplicates that
\* import_data returns for the report and adds no spot and no regime
Rejected ==
    /\ duplicates' = Append(duplicates, row'.PARKEER_ID)
    /\ parkeervakken_sql' = parkeervakken_sql
    /\ regimes_sql' = regimes_sql
    /\ ids' = ids

\* the record just read is accepted: its identifier is recorded and its spot
\* and regimes are added
Accepted ==
    /\ ids' = Append(ids, IntOf(row'.PARKEER_ID))
    /\ duplicates' = duplicates
    /\ Len(parkeervakken_sql') = Len(parkeervakken_sql) + 1
    /\ parkeervakken_sql'[Len(parkeervakken_sql')].parkeer_id = row'.PARKEER_ID
    /\ Len(regimes_sql') > Len(regimes_sql)

\* no identifier has two spot entries, in the file at hand, in the table, or
\* in both before the file at hand is inserted
AtMostOnce ==
    /\ DistinctSpots(parkeervakken_sql)
    /\ DistinctSpots(base_temp)
    /\ pc \in {"reading", "insert_spots"} => DistinctSpots(base_temp \o parkeervakken_sql)

\* C4: within one run each identifier is processed into output at most once:
\* the first record with an identifier is accepted and recorded, every later
\* record with that identifier, in the same or a later shapefile, is rejected,
\* appended to the duplicates and adds no spot and no regime; run_imports
\* reports the duplicates import_data returns.
C4_FirstAcceptedLaterRejected ==
    /\ []AtMostOnce
    /\ [][/\ ReadsRow => IF ReadBefore(row'.PARKEER_ID) THEN Rejected ELSE Accepted
          /\ (pc = "returned" /\ Len(duplicates) > 0)
                 => printed' = Append(printed, duplicates)]_vars

\* C4 witness: a record of the second shapefile repeats, written differently,
\* an identifier whose spot the first shapefile inserted, and was rejected.
C4_Witness ==
    /\ pc = "reading"
    /\ files = 2
    /\ read_ids = << <<1>>, <<0, 1>> >>
    /\ duplicates = << <<0, 1>> >>
    /\ Len(base_temp) = 1
    /\ parkeervakken_sql = << >>
    /\ regimes_sql = << >>

----------------------------------------------------------------------------
(* Properties of the spot of a record *)

\* C14 as stated: the kind passed to and written by create_parkeervaak is
\* "FISCAAL" unless the mode list holds exactly one mode, and then it is that
\* mode's kind.
C14_Original ==
    pc = "done" =>
        LET kind == IF Len(modes) = 1 THEN modes[1].soort ELSE "FISCAAL"
        IN  soort = kind /\ parkeervakken_sql[1].soort = kind

\* C14 amended: the kind passed to create_parkeervaak is "FISCAAL" unless
\* create_regimes returns exactly one regime, and then it is that regime's
\* kind; create_parkeervaak writes the record's own SOORT when that is given
\* and the kind it was passed otherwise.
C14_DominantKind ==
    pc = "done" =>
        /\ soort = (IF Len(output) = 1 THEN output[1].soort ELSE "FISCAAL")
        /\ parkeervakken_sql[1].soort =
               (IF row.SOORT \in {None, ""} THEN soort ELSE row.SOORT)

\* C14 witness: the only mode is a temporary measure of kind "E9" from 12:00
\* to 18:00; with the fillers there are three regimes and the spot is written
\* as "FISCAAL".
C14_Witness ==
    /\ pc = "done"
    /\ Len(modes) = 1 /\ modes[1].soort = "E9"
    /\ Len(output) = 3
    /\ soort = "FISCAAL"
    /\ parkeervakken_sql[1].soort = "FISCAAL"

----------------------------------------------------------------------------
(* Properties of parse_time *)

\* a text that is a time of the day: "hh:mm" or "va hh:mm" within the range of
\* a clock, or "24:00"
ValidTime(v) ==
    /\ v.tag = "str"
    /\ \/ v.hh \in 0..23 /\ v.mm \in 0..59
       \/ v = T(24, 0)

\* C16: parse_time does not raise on a value that is not a valid time: it
\* returns the default it was given, 00:00 for begin times and 23:59 for end
\* times (values: None, the empty string and texts of the shape "hh:mm" or
\* "va hh:mm" with any two numbers).
C16_DefaultOnInvalid ==
    (pc = "done" /\ ~ValidTime(text)) => parsed = bound

\* C16 witness: "25:99" parsed as an end time gives 23:59.
C16_Witness ==
    /\ pc = "done"
    /\ text = T(25, 99)
    /\ bound = Time(23, 59)
    /\ parsed = Time(23, 59)

----------------------------------------------------------------------------
(* Properties of the records of a run *)

\* C15: a record that cannot be processed, its identifier missing, does not
\* abort the batch: the loop goes on with the next record and the entries
\* gathered so far are kept for the insert.
C15_FailureConfined ==
    [][(nrows' = nrows + 1 /\ ~HasInt(row'.PARKEER_ID)) =>
           /\ pc' = "reading"
           /\ parkeervakken_sql' = parkeervakken_sql
           /\ regimes_sql' = regimes_sql]_vars

\* every regime entry references a spot entry of the same batch
References(regimes, spots) ==
    \A i \in 1..Len(regimes) :
        \E j \in 1..Len(spots) : spots[j].parkeer_id = regimes[i].parent_id

\* the record just read is accepted: its identifier is appended to ids
AcceptsRow == nrows' = nrows + 1 /\ ids' # ids

\* one spot entry and one regime entry per regime of create_regimes are
\* appended, all carrying the identifier of the record
EmitsSpotAndRegimes ==
    LET regimes == create_regimes(row')
        n == Len(regimes_sql)
    IN  /\ Len(regimes) >= 1
        /\ Len(parkeervakken_sql') = Len(parkeervakken_sql) + 1
        /\ SubSeq(parkeervakken_sql', 1, Len(parkeervakken_sql)) = parkeervakken_sql
        /\ parkeervakken_sql'[Len(parkeervakken_sql')].parkeer_id = row'.PARKEER_ID
        /\ Len(regimes_sql') = n + Len(regimes)
        /\ SubSeq(regimes_sql', 1, n) = regimes_sql
        /\ \A i \in 1..Len(regimes) :
               /\ regimes_sql'[n + i].parent_id = row'.PARKEER_ID
               /\ regimes_sql'[n + i].begin_tijd = StrfTime(regimes[i].begin_tijd)
               /\ regimes_sql'[n + i].eind_tijd = StrfTime(regimes[i].eind_tijd)

\* C17: for every accepted record import_data emits exactly one spot entry and
\* one regime entry per regime returned by create_regimes, at least one, each
\* with the identifier of that record as parent_id; so every regime entry
\* references a spot entry of the same batch.
C17_SpotAndRegimes ==
    /\ []References(regimes_sql, parkeervakken_sql)
    /\ [][AcceptsRow => EmitsSpotAndRegimes]_vars

\* C17 witness: the record "01" with a slot 1 from 06:00 to 20:00 was accepted
\* after another record: its spot and its three regimes are the last entries.
C17_Witness ==
    /\ pc = "reading"
    /\ row.PARKEER_ID = <<0, 1>>
    /\ Len(output) = 3
    /\ Len(parkeervakken_sql) >= 2
    /\ parkeervakken_sql[Len(parkeervakken_sql)].parkeer_id = <<0, 1>>
    /\ Len(regimes_sql) >= 4
    /\ \A i \in (Len(regimes_sql) - 2)..Len(regimes_sql) :
           regimes_sql[i].parent_id = <<0, 1>>

----------------------------------------------------------------------------
(* Properties of the end of the walk of create_regimes *)

\* a regime was appended after the loop over the modes
TrailingFiller ==
    Len(output) = Len(WalkModes(row, days, modes, 1, Time(0, 0), << >>)) + 1

\* C21 as stated: after the last mode one trailing filler is emitted if and
\* only if the cursor, the last mode's end plus one minute, is before 23:59,
\* and that filler spans from the cursor to 23:59.
C21_Original ==
    (pc = "done" /\ Len(modes) >= 1) =>
        /\ TrailingFiller <=> cursor < Time(23, 59)
        /\ TrailingFiller => Spans(output[Len(output)], cursor, Time(23, 59))

\* C21 amended: after the last mode one trailing filler is emitted if and only
\* if the last mode ends before 23:59, and that filler spans from the last
\* mode's end plus one minute to 23:59.
C21_TrailingFiller ==
    (pc = "done" /\ Len(modes) >= 1) =>
        LET eind == modes[Len(modes)].eind_tijd
        IN  /\ TrailingFiller <=> eind < Time(23, 59)
            /\ TrailingFiller => IsFiller(output[Len(output)], eind + 1, Time(23, 59))

\* C21 witness: the last mode ends at 23:58, the cursor is 23:59 and the
\* trailing filler is the minute 23:59.
C21_Witness ==
    /\ pc = "done"
    /\ Len(modes) >= 1
    /\ modes[Len(modes)].eind_tijd = Time(23, 58)
    /\ cursor = Time(23, 59)
    /\ TrailingFiller
    /\ Spans(output[Len(output)], Time(23, 59), Time(23, 59))

----------------------------------------------------------------------------
(* Properties of the mode list of get_modes *)

\* C22: every mode returned by get_modes begins strictly before it ends.
C22_BeginBeforeEnd ==
    pc = "done" =>
        \A i \in 1..Len(modes) : modes[i].begin_tijd < modes[i].eind_tijd

\* C23 as stated: get_modes returns between 0 and 3 modes.
C23_Original == pc = "done" => Len(modes) \in 0..3

\* C23 amended: get_modes returns between 0 and 4 modes, and 4 exactly when
\* the record has a temporary measure, a slot 1 whose begin is not before its
\* end (two fragments) and a slot 2.
C23_AtMostFourModes ==
    pc = "done" =>
        /\ Len(modes) \in 0..4
        /\ Len(modes) = 4 <=>
               /\ HasTvm(row) /\ HasSlot1(row) /\ HasSlot2(row)
               /\ parse_time(row.BEGINTIJD1, Time(0, 0))
                      >= parse_time(row.EINDTIJD1, Time(23, 59))

\* C23 witness: a temporary measure, the overnight slot 1 from 20:00 to 06:00
\* and a slot 2 gave four modes.
C23_Witness ==
    /\ pc = "done"
    /\ row.BEGINTIJD1 = T(20, 0) /\ row.EINDTIJD1 = T(6, 0)
    /\ HasTvm(row) /\ HasSlot2(row)
    /\ Len(modes) = 4

\* a mode of the temporary measure: the only modes with a begin date
IsTvmMode(mode) == "begin_datum" \in DOMAIN mode

\* C24: if any of the five temporary-measure fields is given, get_modes emits
\* exactly one temporary-measure mode, before every slot-1 and slot-2 mode; its
\* kind is the record's E_TYPE when given and "FISCAAL" otherwise, and it
\* begins at 00:00 and ends at 23:59 when the time field is not set; if none
\* of the five fields is given there is no temporary-measure mode.
C24_TemporaryMeasureFirst ==
    pc = "done" =>
        IF \/ row.TVM_BEGINT.tag = "str" \/ row.TVM_EINDT.tag = "str"
           \/ row.TVM_BEGIND \notin {None, ""} \/ row.TVM_EINDD \notin {None, ""}
           \/ row.TVM_OPMERK \notin {None, ""}
        THEN /\ Len(modes) >= 1
             /\ IsTvmMode(modes[1])
             /\ \A i \in 2..Len(modes) : ~IsTvmMode(modes[i])
             /\ modes[1].soort =
                    (IF row.E_TYPE \in {None, ""} THEN "FISCAAL" ELSE row.E_TYPE)
             /\ row.TVM_BEGINT.tag # "str" => modes[1].begin_tijd = Time(0, 0)
             /\ row.TVM_EINDT.tag # "str" => modes[1].eind_tijd = Time(23, 59)
        ELSE \A i \in 1..Len(modes) : ~IsTvmMode(modes[i])

\* C24 witness: only the remark of a temporary measure is given, on a record
\* of kind "MULDER" with sign type "E9" and both slots: the first of the modes
\* is the whole-day temporary measure of kind "E9".
C24_Witness ==
    /\ pc = "done"
    /\ row.TVM_OPMERK = "it's" /\ row.TVM_BEGIND = None /\ row.TVM_EINDD = None
    /\ row.TVM_BEGINT = NoneT /\ row.TVM_EINDT = NoneT
    /\ row.SOORT = "MULDER" /\ row.E_TYPE = "E9"
    /\ Len(modes) >= 3
    /\ IsTvmMode(modes[1])
    /\ modes[1].soort = "E9" /\ modes[2].soort = "MULDER"
    /\ modes[1].begin_tijd = Time(0, 0) /\ modes[1].eind_tijd = Time(23, 59)

----------------------------------------------------------------------------
(* Frame properties of the run *)

\* no identifier is in the list twice
NoRepeat(list) == \A i, j \in 1..Len(list) : i < j => list[i] # list[j]

\* a list only grows: the old list is the beginning of the new one
Grows(old, new) == Len(new) >= Len(old) /\ SubSeq(new, 1, Len(old)) = old

\* the record just read has an identifier that ids holds already
ReadsDuplicate ==
    /\ nrows' = nrows + 1
    /\ HasInt(row'.PARKEER_ID)
    /\ In(IntOf(row'.PARKEER_ID), ids)

\* C25: the ids list of the run never holds an identifier twice and only
\* grows; rejecting a duplicate leaves ids, the spots and the regimes as they
\* are and only appends the identifier to the duplicates.
C25_IdsFrame ==
    /\ []NoRepeat(ids)
    /\ [][/\ Grows(ids, ids')
          /\ ReadsDuplicate =>
                 /\ ids' = ids
                 /\ parkeervakken_sql' = parkeervakken_sql
                 /\ regimes_sql' = regimes_sql
                 /\ base_temp' = base_temp /\ regimes_temp' = regimes_temp
                 /\ duplicates' = Append(duplicates, row'.PARKEER_ID)]_vars

\* C25 witness: in the first shapefile the record "01" was rejected after the
\* record "1" and another record were accepted.
C25_Witness ==
    /\ pc = "reading"
    /\ files = 1
    /\ Len(ids) = 2 /\ ids[1] = 1
    /\ row.PARKEER_ID = <<0, 1>>
    /\ duplicates = << <<0, 1>> >>
    /\ Len(parkeervakken_sql) = 2

----------------------------------------------------------------------------
(* Frame properties of create_regimes *)

\* a regime with the fields of base_data: kind "FISCAAL", no sign type, no
\* sign, no license plate, no begin and end date
Blank(regime) ==
    /\ regime.soort = "FISCAAL"
    /\ regime.e_type = "" /\ regime.bord = ""
    /\ regime.kenteken = None
    /\ regime.begin_datum = None /\ regime.eind_datum = None

\* C26: every filler has kind "FISCAAL", empty sign type and sign, no license
\* plate and no begin or end date, whatever the modes before it carry: each
\* mode gives one regime and every other regime of the list is blank, so the
\* regimes that are not blank are at most as many as the modes.
C26_FillersBlank ==
    (pc = "done" /\ Len(modes) >= 1) =>
        /\ Len(output) >= Len(modes)
        /\ Cardinality({ i \in 1..Len(output) : ~Blank(output[i]) }) <= Len(modes)

\* C26 witness: on a record with sign type, sign and plate, a slot 1 from
\* 06:00 to 20:00 gives three regimes: the mode carries the plate, the two
\* fillers around it are blank.
C26_Witness ==
    /\ pc = "done"
    /\ row.E_TYPE = "E9" /\ row.KENTEKEN = "AB-12-C"
    /\ ~HasTvm(row)
    /\ row.BEGINTIJD1 = T(6, 0) /\ row.EINDTIJD1 = T(20, 0)
    /\ Len(modes) = 1
    /\ Len(output) = 3
    /\ Blank(output[1]) /\ ~Blank(output[2]) /\ Blank(output[3])
    /\ output[2].kenteken = "AB-12-C"

----------------------------------------------------------------------------
(* Properties of the inserts *)

\* C27: per shapefile the spots are inserted before the regimes; if the insert
\* of the spots fails the regimes are not inserted and the run stops, no later
\* shapefile is imported; if no record of the file was accepted neither insert
\* is executed and the run goes on.
C27_InsertOrder ==
    /\ [](Len(parkeervakken_sql) = 0 => Len(regimes_sql) = 0)
    /\ [][/\ regimes_temp' # regimes_temp =>
                 pc = "insert_regimes" /\ regimes_temp' = regimes_temp \o regimes_sql
          /\ pc' = "insert_regimes" =>
                 /\ pc = "insert_spots"
                 /\ base_temp' = base_temp \o parkeervakken_sql
          /\ pc = "failed" => pc' = "failed" /\ files' = files /\ nrows' = nrows
          /\ (pc = "insert_spots" /\ Len(parkeervakken_sql) = 0) =>
                 pc' = "insert_regimes" /\ base_temp' = base_temp
          /\ (pc = "insert_regimes" /\ Len(regimes_sql) = 0) =>
                 pc' = "returned" /\ regimes_temp' = regimes_temp
          /\ pc = "returned" => pc' = "run_imports"]_vars

\* C27 witness: the insert of the spots of the first shapefile failed; no
\* spot and no regime is in the tables and the run has stopped.
C27_Witness ==
    /\ pc = "failed"
    /\ files = 1
    /\ HasInt(row.PARKEER_ID)
    /\ Len(parkeervakken_sql) > 0 /\ Len(regimes_sql) > 0
    /\ base_temp = << >> /\ regimes_temp = << >>

----------------------------------------------------------------------------
(* Properties of HttpGobOperator *)

\* a pass of the retry loop has failed
FailedPass == pc = "request" /\ attempt' = attempt + 1

\* a pass of the retry loop was answered
AnsweredPass == pc = "request" /\ pc' \in {"load", "finished"}

\* C28: each batch request is attempted at most 3 times: the first answered
\* attempt ends the retries and its response is used; after 3 failures in a row
\* the operator raises, without loading that batch or requesting another.
C28_AtMostThreeAttempts ==
    /\ [](attempt \in 0..3 /\ (pc = "raised" <=> attempt = 3))
    /\ [][/\ FailedPass =>
                 /\ loads' = loads /\ cursor_pos' = cursor_pos
                 /\ records_loaded' = records_loaded /\ response' = response
          /\ AnsweredPass =>
                 /\ attempt' = 0
                 /\ response' = IF cursor_pos < available THEN "records" ELSE "empty"
                 /\ records_loaded' = records_loaded + batch_size
          /\ pc = "raised" => pc' = "raised" /\ loads' = loads]_vars

\* C28 witness: after one batch was loaded, the request of the second batch
\* failed three times and the operator raised.
C28_Witness ==
    /\ pc = "raised"
    /\ attempt = 3
    /\ loads = 1
    /\ fetched = 1

\* C29: with max_records set, a received batch with records is left unloaded
\* only if records_loaded had reached max_records before the batch was
\* requested.
C29_LoadedBeforeLimit ==
    (pc = "finished" /\ max_records # NoLimit /\ fetched > loads) =>
        records_loaded - batch_size >= max_records

\* C30: for a protected endpoint the header that _fetch_headers returns is
\* never built from a token whose expiry time has passed.
C30_TokenNotExpired ==
    (pc = "headers" /\ protected) => ~(now > token_expires_time)

====
